---------------------------- MODULE Spec2Model ----------------------------
(***************************************************************************)
(* A model of replaceJsonPlaceholder (source/json_funcs.hpp) and of the    *)
(* jansson calls it makes.  Strings are sequences of one-character         *)
(* strings; every position is 0-based, as in std::string.                  *)
(***************************************************************************)
EXTENDS Integers, Sequences, FiniteSets, TLC

(***************************************************************************)
(* std::string                                                             *)
(***************************************************************************)

\* std::string::npos.  Only ever compared for equality with a position.
NPOS == -1

MinOf(S) == CHOOSE x \in S : \A y \in S : x <= y

\* s.find(pat, pos): the first position >= pos where pat occurs, or npos
\* (also when pos is beyond the end of s; find never throws).
Find(s, pat, pos) ==
    LET hits == { i \in pos .. (Len(s) - Len(pat)) :
                    SubSeq(s, i + 1, i + Len(pat)) = pat }
    IN  IF hits = {} THEN NPOS ELSE MinOf(hits)

\* s.substr(pos, len) for pos <= size: len is clamped to the end of s.
Substr(s, pos, len) ==
    SubSeq(s, pos + 1, IF pos + len > Len(s) THEN Len(s) ELSE pos + len)

\* s.replace(pos, len, str) for pos + len <= size.
Replace(s, pos, len, str) ==
    SubSeq(s, 1, pos) \o str \o SubSeq(s, pos + len + 1, Len(s))

(***************************************************************************)
(* jansson values                                                          *)
(***************************************************************************)

\* A json_t*: t is the type tag, s the characters of a string, a the
\* elements of an array, o the members of an object (key -> value).
\* NULLPTR is the null pointer.
NULLPTR == [t |-> "nullptr", s |-> <<>>, a |-> <<>>, o |-> <<>>]
JNull   == [t |-> "null",    s |-> <<>>, a |-> <<>>, o |-> <<>>]
JInt    == [t |-> "integer", s |-> <<>>, a |-> <<>>, o |-> <<>>]
JStr(s) == [t |-> "string",  s |-> s,    a |-> <<>>, o |-> <<>>]
JArr(a) == [t |-> "array",   s |-> <<>>, a |-> a,    o |-> <<>>]
JObj(o) == [t |-> "object",  s |-> <<>>, a |-> <<>>, o |-> o]

\* The macros test the pointer before the tag: false on a null pointer.
json_is_object(v) == v.t = "object"
json_is_array(v)  == v.t = "array"
json_is_string(v) == v.t = "string"

\* json_object_get: the member, or NULL when the key is absent.
json_object_get(v, key) ==
    IF json_is_object(v) /\ key \in DOMAIN v.o THEN v.o[key] ELSE NULLPTR

(***************************************************************************)
(* std::stoul                                                              *)
(***************************************************************************)

IsSpace(c) == c = " "
IsDigit(c) == c \in {"0", "1", "2", "3", "4", "5", "6", "7", "8", "9"}
DigitVal(c) ==
    CASE c = "0" -> 0 [] c = "1" -> 1 [] c = "2" -> 2 [] c = "3" -> 3
      [] c = "4" -> 4 [] c = "5" -> 5 [] c = "6" -> 6 [] c = "7" -> 7
      [] c = "8" -> 8 [] c = "9" -> 9

\* Decimal digits of unsigned long's largest value (18446744073709551615).
ULONG_DIGITS == 20
\* Digit runs whose value TLC's integers hold exactly.
EXACT_DIGITS == 9

RECURSIVE SkipSpace(_, _)
\* The first index (1-based) at or after i that holds no white space.
SkipSpace(str, i) ==
    IF i <= Len(str) /\ IsSpace(str[i]) THEN SkipSpace(str, i + 1) ELSE i

RECURSIVE DigitsEnd(_, _)
\* The first index (1-based) at or after i that holds no digit.
DigitsEnd(str, i) ==
    IF i <= Len(str) /\ IsDigit(str[i]) THEN DigitsEnd(str, i + 1) ELSE i

RECURSIVE DigitsValue(_, _, _, _)
DigitsValue(str, i, j, acc) ==
    IF i >= j THEN acc
    ELSE DigitsValue(str, i + 1, j, 10 * acc + DigitVal(str[i]))

\* std::stoul(str), base 10: white space is skipped, one sign is accepted,
\* the longest run of digits is converted and whatever follows is ignored.
\* No digit: std::invalid_argument.  A value above ULONG_MAX:
\* std::out_of_range (here: a run longer than ULONG_DIGITS).  A '-' negates
\* the value as an unsigned long, so "-1" is ULONG_MAX: `big' says that the
\* result exceeds the length of every array (a negated nonzero value, or a
\* run of more than EXACT_DIGITS digits), and n is the value otherwise.
stoul(str) ==
    LET i1  == SkipSpace(str, 1)
        sgn == i1 <= Len(str) /\ str[i1] \in {"+", "-"}
        neg == sgn /\ str[i1] = "-"
        i2  == IF sgn THEN i1 + 1 ELSE i1
        j   == DigitsEnd(str, i2)
        n   == IF j - i2 <= EXACT_DIGITS THEN DigitsValue(str, i2, j, 0) ELSE 0
    IN  IF j = i2 THEN [exc |-> "invalid_argument", big |-> FALSE, n |-> 0]
        ELSE IF j - i2 > ULONG_DIGITS
             THEN [exc |-> "out_of_range", big |-> FALSE, n |-> 0]
        ELSE [exc |-> "none",
              big |-> (j - i2 > EXACT_DIGITS) \/ (neg /\ n > 0),
              n   |-> n]

\* json_array_get: the element, or NULL when the index is out of range.
json_array_get(v, idx) ==
    IF json_is_array(v) /\ ~idx.big /\ idx.n < Len(v.a)
    THEN v.a[idx.n + 1] ELSE NULLPTR

\* json_string_value.
json_string_value(v) == v.s

(***************************************************************************)
(* Texts, command tags and JSON sources                                    *)
(***************************************************************************)

S_json             == <<"j", "s", "o", "n">>
S_json_source      == S_json \o <<"_", "s", "o", "u", "r", "c", "e">>
S_json_file        == S_json \o <<"_", "f", "i", "l", "e">>
S_json_file_source == S_json_file \o <<"_", "s", "o", "u", "r", "c", "e">>
\* A tag replaceJsonPlaceholder does not know.
S_hex              == <<"h", "e", "x">>

InlineTags == {S_json, S_json_source}
FileTags   == {S_json_file, S_json_file_source}

\* "{" + commandName + "("  and  ")}"
Opener(cmd) == <<"{">> \o cmd \o <<"(">>
Closer      == <<")", "}">>
Comma       == <<",">>

Filler == <<".", ".", ".", ".", ".", ".", ".">>

\* {"a":"x", "b":["y",5], "n":5, "o":{"c":"z"}, "1":"k",
\*  "w":".......{json(a)}", "u":".......{json("}
DocObj ==
    JObj(  (<<"a">> :> JStr(<<"x">>))
        @@ (<<"b">> :> JArr(<<JStr(<<"y">>), JInt>>))
        @@ (<<"n">> :> JInt)
        @@ (<<"o">> :> JObj(<<"c">> :> JStr(<<"z">>)))
        @@ (<<"1">> :> JStr(<<"k">>))
        @@ (<<"w">> :> JStr(Filler \o Opener(S_json) \o <<"a">> \o Closer))
        @@ (<<"u">> :> JStr(Filler \o Opener(S_json))) )

\* ["p", {"a":"q"}]
DocArr == JArr(<<JStr(<<"p">>), JObj(<<"a">> :> JStr(<<"q">>))>>)

\* {"v":".......{json(v)}"}
DocLoop == JObj(<<"v">> :> JStr(Filler \o Opener(S_json) \o <<"v">> \o Closer))

\* What jsonPathOrString may be: JSON text (or the path of a file holding
\* it) of each document, and text (a path) that jansson cannot load.
Sources == {"obj", "arr", "loop", "bad"}

\* json_loads(text, 0, &error) / json_load_file(path, 0, &error): the root
\* value, or NULL on a load or parse failure.
json_loads(src) ==
    CASE src = "obj"  -> DocObj
      [] src = "arr"  -> DocArr
      [] src = "loop" -> DocLoop
      [] OTHER        -> NULLPTR

json_load_file(src) == json_loads(src)

\* stringToJson: json_loads, NULL on failure.
stringToJson(input) == json_loads(input)

\* LoadDocument with the test of the inline tags lost: every tag that is no
\* file tag has its source parsed as JSON text.
LoadDocumentAnyTag(cmd, src) ==
    IF cmd = S_json_file \/ cmd = S_json_file_source THEN json_load_file(src)
    ELSE stringToJson(src)

\* Lines 127-134: the root value the call obtains, NULL for any other tag.
LoadDocument(cmd, src) ==
    IF cmd = S_json \/ cmd = S_json_source THEN stringToJson(src)
    ELSE IF cmd = S_json_file \/ cmd = S_json_file_source THEN json_load_file(src)
    ELSE NULLPTR

(***************************************************************************)
(* The calls that are explored                                             *)
(***************************************************************************)

\* Placeholder bodies tried against each source.
Bodies(src) ==
    CASE src = "obj" ->
           { <<"a">>, <<"b", ",", "0">>, <<"b", ",", "1">>, <<"b", ",", "k">>,
             <<"b", ",", "-", "1">>, <<"n", ",", "a">>, <<"o", ",", "c">>,
             <<"o">>, <<"m", ",", "a">>, <<"1">>, <<"a", ",">>, <<>>, <<"w">>,
             <<"u">> }
      [] src = "arr" ->
           { <<"0">>, <<"1", ",", "a">>, <<"a">>, <<"5">>, <<" ", "0">> }
      [] src = "loop" -> { <<"v">> }
      [] OTHER -> { <<"a">> }

OtherTag(cmd) == IF cmd = S_json THEN S_json_file ELSE S_json

\* Plain text, a placeholder of the call's command, an opener that is never
\* closed, and a placeholder of another command.
Pieces(cmd, src) ==
    { <<>>, <<"-">>, Comma }
      \cup { Opener(cmd) \o b \o Closer : b \in Bodies(src) }
      \cup { Opener(cmd) \o <<"a">> }
      \cup { Opener(OtherTag(cmd)) \o <<"a">> \o Closer }

\* The texts: three pieces in a row.
Texts(cmd, src) ==
    { p1 \o p2 \o p3 : p1 \in Pieces(cmd, src), p2 \in Pieces(cmd, src),
                       p3 \in Pieces(cmd, src) }

\* <<commandName, jsonPathOrString>>
Calls ==
    ({S_json} \X Sources)
      \cup ({S_json_file} \X {"obj", "bad"})
      \cup ({S_json_source} \X {"arr"})
      \cup ({S_json_file_source} \X {"loop"})
      \cup ({S_hex} \X {"obj"})

\* Iterations of the scan loop that are followed.
MaxIter == 30

(***************************************************************************)
(* replaceJsonPlaceholder                                                  *)
(***************************************************************************)

VARIABLES
    arg, commandName, jsonPathOrString,      \* the parameters
    pc,                                      \* where the call is
    jsonDict, replacement, searchString,     \* the locals of lines 127-146
    startPos, endPos, nextPos, placeholder,
    keysAndIndexes, keyIdx, value, validValue,
    result,                                  \* the string returned
    exception,                               \* what the call threw
    released,                                \* json_decref calls on the root
    iterations,                              \* passes of the while loop
    stopReason,                              \* how the while loop ended
    lastInsertEnd,                           \* end of the text the last pass
                                             \* inserted, NPOS if it did not
    origin,                                  \* per character of replacement:
                                             \* its index in arg, 0 if inserted
    steps,                                   \* the descent made for the
                                             \* segments in keysAndIndexes
    posInRange                               \* every position handed to find,
                                             \* substr and replace so far was
                                             \* within the string

vars == << arg, commandName, jsonPathOrString, pc, jsonDict, replacement,
           searchString, startPos, endPos, nextPos, placeholder,
           keysAndIndexes, keyIdx, value, validValue, result, exception,
           released, iterations, stopReason, lastInsertEnd, origin, steps,
           posInRange >>

params == << arg, commandName, jsonPathOrString >>
ghosts == << released, iterations, stopReason, lastInsertEnd, origin, steps,
            posInRange >>

Init ==
    /\ \E c \in Calls :
         /\ commandName = c[1]
         /\ jsonPathOrString = c[2]
         /\ arg \in Texts(c[1], c[2])
    /\ pc = "call"
    /\ jsonDict = NULLPTR
    /\ replacement = <<>>
    /\ searchString = <<>>
    /\ startPos = NPOS
    /\ endPos = NPOS
    /\ nextPos = 0
    /\ placeholder = <<>>
    /\ keysAndIndexes = <<>>
    /\ keyIdx = 1
    /\ value = NULLPTR
    /\ validValue = TRUE
    /\ result = <<>>
    /\ exception = "none"
    /\ released = 0
    /\ iterations = 0
    /\ stopReason = "none"
    /\ lastInsertEnd = NPOS
    /\ origin = <<>>
    /\ steps = <<>>
    /\ posInRange = TRUE

\* Lines 127-138: no document, the argument is returned as it is.
CallNoDocument ==
    /\ pc = "call"
    /\ LoadDocument(commandName, jsonPathOrString).t = "nullptr"
    /\ result' = arg
    /\ pc' = "done"
    /\ UNCHANGED << params, jsonDict, replacement, searchString, startPos,
                    endPos, nextPos, placeholder, keysAndIndexes, keyIdx,
                    value, validValue, exception, ghosts >>

\* Lines 127-146: the document is obtained and the first opener looked for.
CallWithDocument ==
    /\ pc = "call"
    /\ LoadDocument(commandName, jsonPathOrString).t # "nullptr"
    /\ jsonDict' = LoadDocument(commandName, jsonPathOrString)
    /\ replacement' = arg
    /\ searchString' = Opener(commandName)
    /\ startPos' = Find(arg, Opener(commandName), 0)
    /\ origin' = [i \in 1 .. Len(arg) |-> i]
    /\ pc' = "loop"
    /\ UNCHANGED << params, endPos, nextPos, placeholder, keysAndIndexes,
                    keyIdx, value, validValue, result, exception, released,
                    iterations, stopReason, lastInsertEnd, steps,
                    posInRange >>

\* CloserPos with a missing closer taken for one at the end of the text.
CloserPosOrEnd(s, start) ==
    IF Find(s, Closer, start) = NPOS THEN Len(s) ELSE Find(s, Closer, start)

\* Line 150: where the closer of the placeholder at startPos is.
CloserPos(s, start) == Find(s, Closer, start)

\* Line 148: no opener is left.
LoopExit ==
    /\ pc = "loop"
    /\ startPos = NPOS
    /\ stopReason' = "exhausted"
    /\ pc' = "free"
    /\ UNCHANGED << params, jsonDict, replacement, searchString, startPos,
                    endPos, nextPos, placeholder, keysAndIndexes, keyIdx,
                    value, validValue, result, exception, released,
                    iterations, lastInsertEnd, origin, steps,
                    posInRange >>

\* Lines 149-153: the opener at startPos has no closer, the loop is left.
LoopBreak ==
    /\ pc = "loop"
    /\ startPos # NPOS
    /\ CloserPos(replacement, startPos) = NPOS
    /\ keysAndIndexes' = <<>>
    /\ endPos' = NPOS
    /\ stopReason' = "unterminated"
    /\ steps' = <<>>
    /\ pc' = "free"
    /\ UNCHANGED << params, jsonDict, replacement, searchString, startPos,
                    nextPos, placeholder, keyIdx, value, validValue, result,
                    exception, released, iterations, lastInsertEnd, origin,
                    posInRange >>

\* Lines 149-158: a placeholder is found, its body is about to be split.
LoopEnter ==
    /\ pc = "loop"
    /\ startPos # NPOS
    /\ CloserPos(replacement, startPos) # NPOS
    /\ keysAndIndexes' = <<>>
    /\ endPos' = CloserPos(replacement, startPos)
    /\ placeholder' = Substr(replacement, startPos, endPos' - startPos + 2)
    /\ nextPos' = startPos + Len(searchString)
    /\ steps' = <<>>
    /\ pc' = "split"
    /\ UNCHANGED << params, jsonDict, replacement, searchString, startPos,
                    keyIdx, value, validValue, result, exception, released,
                    iterations, stopReason, lastInsertEnd, origin,
                    posInRange >>

\* Lines 161-162: the length of the segment that starts at next.
SegmentLen(s, next, end) ==
    LET commaPos == Find(s, Comma, next)
    IN  IF commaPos # NPOS THEN commaPos - next ELSE end - next

\* Lines 160-165: one pass of the loop that extracts the segments.
SplitStep ==
    /\ pc = "split"
    /\ nextPos < endPos
    /\ LET len == SegmentLen(replacement, nextPos, endPos)
       IN  /\ keysAndIndexes' =
                Append(keysAndIndexes, Substr(replacement, nextPos, len))
           /\ nextPos' = nextPos + len + 1
    /\ UNCHANGED << params, pc, jsonDict, replacement, searchString, startPos,
                    endPos, placeholder, keyIdx, value, validValue, result,
                    exception, ghosts >>

\* Lines 160, 167-169: the segments are extracted, the descent starts.
SplitDone ==
    /\ pc = "split"
    /\ ~(nextPos < endPos)
    /\ value' = jsonDict
    /\ validValue' = TRUE
    /\ keyIdx' = 1
    /\ pc' = "descend"
    /\ UNCHANGED << params, jsonDict, replacement, searchString, startPos,
                    endPos, nextPos, placeholder, keysAndIndexes, result,
                    exception, ghosts >>

\* SegmentMode deciding by the look of the segment: a segment of digits is
\* an index, on objects too.
SegmentModeBySyntax(v, keyIndex) ==
    IF (json_is_object(v) \/ json_is_array(v))
       /\ keyIndex # <<>>
       /\ \A i \in 1 .. Len(keyIndex) : IsDigit(keyIndex[i])
    THEN "index"
    ELSE IF json_is_object(v) THEN "key"
    ELSE IF json_is_array(v) THEN "index"
    ELSE "invalid"

\* Lines 170-178: how the segment keyIndex is applied to the value v.
SegmentMode(v, keyIndex) ==
    IF json_is_object(v) THEN "key"
    ELSE IF json_is_array(v) THEN "index"
    ELSE "invalid"

Step(mode) == [variant |-> value.t, seg |-> keysAndIndexes[keyIdx], mode |-> mode]

\* Lines 170-171: the segment is a key of the object.
DescendKey ==
    /\ pc = "descend"
    /\ keyIdx <= Len(keysAndIndexes)
    /\ SegmentMode(value, keysAndIndexes[keyIdx]) = "key"
    /\ value' = json_object_get(value, keysAndIndexes[keyIdx])
    /\ keyIdx' = keyIdx + 1
    /\ steps' = Append(steps, Step("key"))
    /\ UNCHANGED << params, pc, jsonDict, replacement, searchString, startPos,
                    endPos, nextPos, placeholder, keysAndIndexes, validValue,
                    result, exception, released, iterations, stopReason,
                    lastInsertEnd, origin,
                    posInRange >>

\* Lines 172-174: the segment is an index of the array.
DescendIndex ==
    /\ pc = "descend"
    /\ keyIdx <= Len(keysAndIndexes)
    /\ SegmentMode(value, keysAndIndexes[keyIdx]) = "index"
    /\ stoul(keysAndIndexes[keyIdx]).exc = "none"
    /\ value' = json_array_get(value, stoul(keysAndIndexes[keyIdx]))
    /\ keyIdx' = keyIdx + 1
    /\ steps' = Append(steps, Step("index"))
    /\ UNCHANGED << params, pc, jsonDict, replacement, searchString, startPos,
                    endPos, nextPos, placeholder, keysAndIndexes, validValue,
                    result, exception, released, iterations, stopReason,
                    lastInsertEnd, origin,
                    posInRange >>

\* Line 173: std::stoul throws; nothing in the function catches it, so the
\* call ends there and the exception goes to the caller.
DescendThrow ==
    /\ pc = "descend"
    /\ keyIdx <= Len(keysAndIndexes)
    /\ SegmentMode(value, keysAndIndexes[keyIdx]) = "index"
    /\ stoul(keysAndIndexes[keyIdx]).exc # "none"
    /\ exception' = stoul(keysAndIndexes[keyIdx]).exc
    /\ steps' = Append(steps, Step("index"))
    /\ pc' = "threw"
    /\ UNCHANGED << params, jsonDict, replacement, searchString, startPos,
                    endPos, nextPos, placeholder, keysAndIndexes, keyIdx,
                    value, validValue, result, released, iterations,
                    stopReason, lastInsertEnd, origin,
                    posInRange >>

\* Lines 175-178: the value is neither an object nor an array.
DescendInvalid ==
    /\ pc = "descend"
    /\ keyIdx <= Len(keysAndIndexes)
    /\ SegmentMode(value, keysAndIndexes[keyIdx]) = "invalid"
    /\ validValue' = FALSE
    /\ steps' = Append(steps, Step("invalid"))
    /\ pc' = "subst"
    /\ UNCHANGED << params, jsonDict, replacement, searchString, startPos,
                    endPos, nextPos, placeholder, keysAndIndexes, keyIdx,
                    value, result, exception, released, iterations,
                    stopReason, lastInsertEnd, origin,
                    posInRange >>

\* Line 169: every segment is consumed.
DescendDone ==
    /\ pc = "descend"
    /\ keyIdx > Len(keysAndIndexes)
    /\ pc' = "subst"
    /\ UNCHANGED << params, jsonDict, replacement, searchString, startPos,
                    endPos, nextPos, placeholder, keysAndIndexes, keyIdx,
                    value, validValue, result, exception, ghosts >>

\* Line 181.
Substitutable == validValue /\ value.t # "nullptr" /\ json_is_string(value)

\* Line 187: where the search for the next opener starts, given the span of
\* the placeholder just handled and the length of what replaced it.
ResumePos(start, end, insertedLen) == end

\* Lines 181-187: the placeholder is replaced by the string found.
SubstituteReplace ==
    /\ pc = "subst"
    /\ iterations < MaxIter
    /\ Substitutable
    /\ LET str == json_string_value(value)
           n   == endPos - startPos + 2
       IN  /\ replacement' = Replace(replacement, startPos, n, str)
           /\ origin' = Replace(origin, startPos, n, [i \in 1 .. Len(str) |-> 0])
           /\ lastInsertEnd' = startPos + Len(str)
           /\ startPos' = Find(replacement', searchString,
                               ResumePos(startPos, endPos, Len(str)))
           /\ posInRange' = (posInRange /\
                ResumePos(startPos, endPos, Len(str)) <= Len(replacement'))
    /\ iterations' = iterations + 1
    /\ pc' = "loop"
    /\ UNCHANGED << params, jsonDict, searchString, endPos, nextPos,
                    placeholder, keysAndIndexes, keyIdx, value, validValue,
                    result, exception, released, stopReason, steps >>

\* Lines 181, 187: the placeholder stays.
SubstituteSkip ==
    /\ pc = "subst"
    /\ iterations < MaxIter
    /\ ~Substitutable
    /\ lastInsertEnd' = NPOS
    /\ startPos' = Find(replacement, searchString, endPos)
    /\ posInRange' = (posInRange /\ endPos <= Len(replacement))
    /\ iterations' = iterations + 1
    /\ pc' = "loop"
    /\ UNCHANGED << params, jsonDict, replacement, searchString, endPos,
                    nextPos, placeholder, keysAndIndexes, keyIdx, value,
                    validValue, result, exception, released, stopReason,
                    origin, steps >>

\* Lines 190-195: the root is released and the string returned.
Free ==
    /\ pc = "free"
    /\ released' = IF jsonDict.t # "nullptr" THEN released + 1 ELSE released
    /\ result' = replacement
    /\ pc' = "done"
    /\ UNCHANGED << params, jsonDict, replacement, searchString, startPos,
                    endPos, nextPos, placeholder, keysAndIndexes, keyIdx,
                    value, validValue, exception, iterations, stopReason,
                    lastInsertEnd, origin, steps,
                    posInRange >>

Next ==
    \/ CallNoDocument
    \/ CallWithDocument
    \/ LoopExit
    \/ LoopBreak
    \/ LoopEnter
    \/ SplitStep
    \/ SplitDone
    \/ DescendKey
    \/ DescendIndex
    \/ DescendThrow
    \/ DescendInvalid
    \/ DescendDone
    \/ SubstituteReplace
    \/ SubstituteSkip
    \/ Free

Spec == Init /\ [][Next]_vars

(***************************************************************************)
(* What the claims speak of                                                *)
(***************************************************************************)

Terminated == pc \in {"done", "threw"}

\* A document is available: the tag is an inline-JSON or a file-backed-JSON
\* tag and the source loads and parses.
DocumentAvailable ==
    \/ commandName \in InlineTags /\ json_loads(jsonPathOrString).t # "nullptr"
    \/ commandName \in FileTags /\ json_load_file(jsonPathOrString).t # "nullptr"

\* The body of the placeholder being handled: the text strictly between the
\* end of the opener and the start of the closer.
Body == SubSeq(replacement, startPos + Len(searchString) + 1, endPos)

RECURSIVE SplitOn(_)
\* body split on ",": n separators give n + 1 pieces, empty ones included.
SplitOn(body) ==
    LET c == Find(body, Comma, 0)
    IN  IF c = NPOS THEN <<body>>
        ELSE <<SubSeq(body, 1, c)>> \o SplitOn(SubSeq(body, c + 2, Len(body)))

\* A segment that is an unsigned integer: digits and nothing else.
IsUnsigned(seg) == seg # <<>> /\ \A i \in 1 .. Len(seg) : IsDigit(seg[i])

RECURSIVE Resolve(_, _)
\* The navigator the claims describe: the value the segments lead to from
\* cur, NULLPTR when a key is missing, an index does not parse or is out of
\* range, or a segment is applied to a value that is no container.
Resolve(cur, segs) ==
    IF segs = <<>> THEN cur
    ELSE IF cur.t = "object"
         THEN IF Head(segs) \in DOMAIN cur.o
              THEN Resolve(cur.o[Head(segs)], Tail(segs)) ELSE NULLPTR
    ELSE IF cur.t = "array"
         THEN IF /\ IsUnsigned(Head(segs))
                 /\ Len(Head(segs)) <= EXACT_DIGITS
                 /\ DigitsValue(Head(segs), 1, Len(Head(segs)) + 1, 0) < Len(cur.a)
              THEN Resolve(cur.a[DigitsValue(Head(segs), 1, Len(Head(segs)) + 1, 0) + 1],
                           Tail(segs))
              ELSE NULLPTR
    ELSE NULLPTR

RECURSIVE Occurrences(_, _, _)
\* The well-formed placeholders of text from pos on, left to right: for each
\* the positions of its opener and of its closer.
Occurrences(text, opener, pos) ==
    LET i == Find(text, opener, pos)
        j == IF i = NPOS THEN NPOS ELSE Find(text, Closer, i + Len(opener))
    IN  IF i = NPOS \/ j = NPOS THEN <<>>
        ELSE <<[open |-> i, close |-> j]>> \o Occurrences(text, opener, j + 2)

\* The value the path of placeholder occ of text resolves to in root.
Resolved(text, opener, root, occ) ==
    Resolve(root, SplitOn(SubSeq(text, occ.open + Len(opener) + 1, occ.close)))

RECURSIVE Expected(_, _, _, _, _)
\* text from pos on with every placeholder among occs[k..] whose path
\* resolves to a string replaced by that string, and the rest kept.
Expected(text, opener, root, occs, k) ==
    LET pos == IF k = 1 THEN 0 ELSE occs[k - 1].close + 2
    IN  IF k > Len(occs) THEN SubSeq(text, pos + 1, Len(text))
        ELSE LET r == Resolved(text, opener, root, occs[k])
             IN  SubSeq(text, pos + 1, occs[k].open)
                   \o (IF r.t = "string" THEN r.s
                       ELSE SubSeq(text, occs[k].open + 1, occs[k].close + 2))
                   \o Expected(text, opener, root, occs, k + 1)

ArgOccurrences == Occurrences(arg, Opener(commandName), 0)
ArgResolved(k) ==
    Resolved(arg, Opener(commandName),
             LoadDocument(commandName, jsonPathOrString), ArgOccurrences[k])
ArgExpected ==
    Expected(arg, Opener(commandName),
             LoadDocument(commandName, jsonPathOrString), ArgOccurrences, 1)

\* Every placeholder of arg resolves to a string / none does.
AllResolve ==
    /\ ArgOccurrences # <<>>
    /\ \A k \in 1 .. Len(ArgOccurrences) : ArgResolved(k).t = "string"
NoneResolves ==
    /\ ArgOccurrences # <<>>
    /\ \A k \in 1 .. Len(ArgOccurrences) : ArgResolved(k).t # "string"

RECURSIVE SumOver(_, _)
SumOver(f, S) ==
    IF S = {} THEN 0
    ELSE LET x == CHOOSE y \in S : TRUE IN f[x] + SumOver(f, S \ {x})

RECURSIVE DocSize(_)
\* The size of a document: its values, and the characters of its strings
\* and keys.
DocSize(v) ==
    CASE v.t = "string" -> 1 + Len(v.s)
      [] v.t = "array"  ->
           1 + SumOver([i \in 1 .. Len(v.a) |-> DocSize(v.a[i])], 1 .. Len(v.a))
      [] v.t = "object" ->
           1 + SumOver([k \in DOMAIN v.o |-> Len(k) + DocSize(v.o[k])], DOMAIN v.o)
      [] v.t = "nullptr" -> 0
      [] OTHER -> 1

\* The opener found at startPos is text of arg, not text a replacement
\* inserted.
OpenerIsOriginal ==
    /\ startPos # NPOS
    /\ \A k \in 1 .. Len(searchString) :
         /\ origin[startPos + k] > 0
         /\ origin[startPos + k] = origin[startPos + 1] + k - 1

(***************************************************************************)
(* The claims                                                              *)
(***************************************************************************)

\* C1: when every well-formed placeholder of the input resolves to a JSON
\* string, the call returns the input with each of them replaced by exactly
\* that string, whatever surrounds it (other placeholders of the command,
\* commas later in the text).
C1_ResolvedAreReplaced ==
    (Terminated /\ DocumentAvailable /\ AllResolve)
        => (pc = "done" /\ result = ArgExpected)

\* C2: when no placeholder of the input resolves to a JSON string (missing
\* key, index that does not parse or is out of range, descent into a value
\* that is no container, leaf that is no string), the call returns the input
\* unchanged.
C2_UnresolvedAreKept ==
    (Terminated /\ DocumentAvailable /\ NoneResolves)
        => (pc = "done" /\ result = arg)

\* C3: after a replacement the scan goes on from the position just after
\* the inserted text: the next opener is the first one at or after that
\* position.
C3_ResumesAfterInsertedText ==
    (pc = "loop" /\ lastInsertEnd # NPOS)
        => startPos = Find(replacement, searchString, lastInsertEnd)

\* C4: the number of passes of the scan loop is bounded by the length of
\* the input and the size of the document.
C4_PassesAreBounded ==
    iterations <= Len(arg) + DocSize(jsonDict)

\* C5: no call ends in an exception, and every position handed to find,
\* substr and replace is within the length of the string at that time.
C5_NoException ==
    /\ pc # "threw"
    /\ posInRange

\* C6: when the call has ended, the root value was released exactly once if
\* one was obtained and never otherwise.
C6_ReleasedExactlyOnce ==
    Terminated => released = (IF DocumentAvailable THEN 1 ELSE 0)

\* C7: when no document is available (unknown tag, or a source that does
\* not load or parse) the call returns its input text unchanged, whatever
\* placeholders the text holds.
C7_NoDocumentNoChange ==
    (Terminated /\ ~DocumentAvailable)
        => (pc = "done" /\ result = arg)

\* C7's case: a call without document has returned, on a text that holds a
\* well-formed placeholder of its command.
C7_Witness ==
    /\ pc = "done"
    /\ ~DocumentAvailable
    /\ ArgOccurrences # <<>>

\* C8: a placeholder is handled only if a closer follows its opener; when
\* the scan reaches an opener of the input with no closer after it, the
\* loop is left, and the call returns the text as resolved up to that opener
\* followed by the input from that opener on.
C8_UnterminatedStopsTheScan ==
    /\ pc \in {"split", "descend", "subst"}
         => /\ endPos # NPOS
            /\ endPos >= startPos + Len(searchString)
            /\ endPos + 2 <= Len(replacement)
            /\ SubSeq(replacement, endPos + 1, endPos + 2) = Closer
    /\ stopReason = "unterminated"
         => /\ Find(replacement, Closer, startPos) = NPOS
            /\ pc \in {"free", "done"}
            /\ (pc = "done" /\ OpenerIsOriginal)
                 => result = SubSeq(replacement, 1, startPos)
                               \o SubSeq(arg, origin[startPos + 1], Len(arg))

\* C8's case: the scan replaced a placeholder, then reached an opener of
\* the input that is never closed, and the call has returned.
C8_Witness ==
    /\ pc = "done"
    /\ stopReason = "unterminated"
    /\ OpenerIsOriginal
    /\ iterations > 0
    /\ result # arg

\* C9: the segments handed to the descent are the body split on ",": each
\* lies inside the body and empty pieces are kept (an empty body may give
\* no segment at all).
C9_SegmentsAreTheSplitBody ==
    pc \in {"descend", "subst"}
        => \/ keysAndIndexes = SplitOn(Body)
           \/ Body = <<>> /\ keysAndIndexes = <<>>

RECURSIVE Walk(_, _)
\* The value the recorded steps lead to from v, read off the document.
Walk(v, sts) ==
    IF sts = <<>> THEN v
    ELSE LET st == Head(sts)
         IN  Walk(CASE st.mode = "key" ->
                         IF v.t = "object" /\ st.seg \in DOMAIN v.o
                         THEN v.o[st.seg] ELSE NULLPTR
                    [] st.mode = "index" ->
                         IF /\ v.t = "array"
                            /\ stoul(st.seg).exc = "none"
                            /\ ~stoul(st.seg).big
                            /\ stoul(st.seg).n < Len(v.a)
                         THEN v.a[stoul(st.seg).n + 1] ELSE NULLPTR
                    [] OTHER -> v,
                  Tail(sts))

\* C10: at every step of the descent the variant of the current value alone
\* decides how the segment is taken: as a key on an object (also when it
\* looks numeric), as an index on an array, and on anything else (a scalar,
\* null, a value that is absent) the descent is invalid and the placeholder
\* is not replaced.
C10_VariantDecides ==
    /\ \A i \in 1 .. Len(steps) :
         /\ steps[i].variant = Walk(jsonDict, SubSeq(steps, 1, i - 1)).t
         /\ steps[i].seg = keysAndIndexes[i]
         /\ steps[i].mode = (CASE steps[i].variant = "object" -> "key"
                               [] steps[i].variant = "array"  -> "index"
                               [] OTHER                       -> "invalid")
    /\ (pc = "subst" /\ validValue) => value = Walk(jsonDict, steps)
    /\ (\E i \in 1 .. Len(steps) : steps[i].mode = "invalid")
         => /\ pc \in {"subst", "loop", "free", "done"}
            /\ ~validValue
            /\ pc # "subst" => lastInsertEnd = NPOS

\* C10's case: a segment that looks numeric was looked up as a key of an
\* object, and the placeholder was replaced by the string found there.
C10_Witness ==
    /\ pc = "loop"
    /\ lastInsertEnd # NPOS
    /\ steps # <<>>
    /\ steps[Len(steps)].variant = "object"
    /\ IsUnsigned(steps[Len(steps)].seg)

=============================================================================
